---- MODULE Spec2Model ----
(***************************************************************************)
(* Model of scanner_diff.py: the VulnerabilityScanner class that runs two  *)
(* container scanners (Trivy, Grype) on a list of images, normalises each  *)
(* scanner's JSON document into a set of (vulnerability id, package name)  *)
(* keys and a severity histogram, compares the two key sets per image and  *)
(* aggregates the per-image records into a report.                         *)
(*                                                                         *)
(* Strings are sequences of one-character strings, so that str.upper(),    *)
(* truthiness and the ordering used by sorted() are computed character by  *)
(* character.  JSON values are tagged records:                             *)
(*   [t |-> "null"], [t |-> "str", v |-> chars], [t |-> "list", v |-> seq],*)
(*   [t |-> "dict", v |-> function from key to value].                     *)
(* A Python call is modelled by its outcome [exc |-> name, value |-> v];   *)
(* exc = "None" means the call returned.                                   *)
(***************************************************************************)
EXTENDS Integers, Sequences, FiniteSets, TLC

VARIABLES
    images,      \* self.images
    results,     \* self.results
    report,      \* the dict last returned by generate_report (per_image aliases self.results)
    pc,          \* position of the caller / of the loop inside scan_all
    idx,         \* index of the image scan_all is processing
    trivy_data,  \* scan_all's local trivy_data
    grype_data,  \* scan_all's local grype_data
    exc,         \* exception that ended the last method call, "None" if it returned
    lastCall,    \* the method called last
    scan_calls,  \* how often scan_all was called: 0, 1, or 2 for more than once
    scanned,     \* per record of self.results, the two documents it was made from
    call,        \* a single method call on given arguments (unit level)
    ret          \* its outcome

vars == <<images, results, report, pc, idx, trivy_data, grype_data, exc, lastCall,
          scan_calls, scanned, call, ret>>

-----------------------------------------------------------------------------
(* Bounds *)

MaxVulns == 2      \* findings in one scanner document
MaxResults == 2    \* entries of Trivy's "Results" list
MaxImages == 2     \* images given to the constructor
MaxRecords == 2    \* records self.results may hold before scan_all is no longer called

-----------------------------------------------------------------------------
(* Python strings *)

Digits == <<"0", "1", "2", "3", "4", "5", "6", "7", "8", "9">>

UpperLetters == <<"A", "B", "C", "D", "E", "F", "G", "H", "I", "J", "K", "L", "M",
                  "N", "O", "P", "Q", "R", "S", "T", "U", "V", "W", "X", "Y", "Z">>

LowerLetters == <<"a", "b", "c", "d", "e", "f", "g", "h", "i", "j", "k", "l", "m",
                  "n", "o", "p", "q", "r", "s", "t", "u", "v", "w", "x", "y", "z">>

IndexIn(c, table) == CHOOSE k \in DOMAIN table : table[k] = c

IsIn(c, table) == \E k \in DOMAIN table : table[k] = c

\* code point of a character (the order str comparison uses)
Ord(c) ==
    IF IsIn(c, Digits) THEN 47 + IndexIn(c, Digits)
    ELSE IF IsIn(c, UpperLetters) THEN 64 + IndexIn(c, UpperLetters)
    ELSE IF IsIn(c, LowerLetters) THEN 96 + IndexIn(c, LowerLetters)
    ELSE 45

UpperChar(c) == IF IsIn(c, LowerLetters) THEN UpperLetters[IndexIn(c, LowerLetters)] ELSE c

\* faulty variant: the label is counted as written, .upper() left out
StrUpper_left_out(s) == s

\* str.upper()
StrUpper(s) == [k \in DOMAIN s |-> UpperChar(s[k])]

RECURSIVE StrLess(_, _)
\* a < b for two str
StrLess(a, b) ==
    IF b = <<>> THEN FALSE
    ELSE IF a = <<>> THEN TRUE
    ELSE IF Head(a) # Head(b) THEN Ord(Head(a)) < Ord(Head(b))
    ELSE StrLess(Tail(a), Tail(b))

\* k1 < k2 for two (str, str) tuples
TupleLess(k1, k2) == StrLess(k1[1], k2[1]) \/ (k1[1] = k2[1] /\ StrLess(k1[2], k2[2]))

RECURSIVE sorted(_)
\* sorted(list(S)) for a set S of (str, str) tuples
sorted(S) ==
    IF S = {} THEN <<>>
    ELSE LET m == CHOOSE x \in S : \A y \in S \ {x} : TupleLess(x, y)
         IN  <<m>> \o sorted(S \ {m})

-----------------------------------------------------------------------------
(* JSON values as json.loads returns them *)

JNull == [t |-> "null"]
JStr(s) == [t |-> "str", v |-> s]
JList(l) == [t |-> "list", v |-> l]
JDict(f) == [t |-> "dict", v |-> f]

EmptyDict == JDict(<<>>)

\* bool(v)
Truthy(v) ==
    CASE v.t = "null" -> FALSE
      [] v.t = "dict" -> DOMAIN v.v # {}
      [] OTHER -> v.v # <<>>

\* v.get(key, default) of a dict v
Get(v, key, default) == IF key \in DOMAIN v.v THEN v.v[key] ELSE default

RECURSIVE SetToSeq(_)
SetToSeq(S) ==
    IF S = {} THEN <<>> ELSE LET x == CHOOSE y \in S : TRUE IN <<x>> \o SetToSeq(S \ {x})

\* "for x in v" raises TypeError on None
Iterable(v) == v.t # "null"

\* the items "for x in v" visits: a list's elements, a str's characters, a dict's keys
Items(v) ==
    CASE v.t = "list" -> v.v
      [] v.t = "str" -> [k \in DOMAIN v.v |-> JStr(<<v.v[k]>>)]
      [] v.t = "dict" -> [k \in 1..Cardinality(DOMAIN v.v) |-> JStr(<<SetToSeq(DOMAIN v.v)[k]>>)]

\* set.add((a, b)) raises TypeError on an unhashable member
Hashable(v) == v.t \in {"null", "str"}

-----------------------------------------------------------------------------
(* Outcomes of calls, Counter *)

Returned(v) == [exc |-> "None", value |-> v]
Raised(e) == [exc |-> e]

\* Counter()/dict: a function from the labels seen to their counts
EmptyCounter == <<>>

\* c[key] += n
CounterAdd(c, key, n) ==
    IF key \in DOMAIN c THEN [c EXCEPT ![key] = @ + n] ELSE c @@ (key :> n)

UNKNOWN == <<"U", "N", "K", "N", "O", "W", "N">>
Unknown == <<"U", "n", "k", "n", "o", "w", "n">>

-----------------------------------------------------------------------------
(* scan_with_trivy / scan_with_grype *)

\* A run of the external scanner: whether the binary exists, its exit code and
\* its standard output (empty, text that is not JSON, or the text of a JSON value).

\* subprocess.run raises FileNotFoundError when the binary does not exist
subprocess_run(proc) == IF proc.found THEN Returned(proc) ELSE Raised("FileNotFoundError")

\* json.loads(text)
json_loads(stdout) ==
    IF stdout.kind = "json" THEN Returned(stdout.doc) ELSE Raised("JSONDecodeError")

scan_with(proc) ==
    LET result == subprocess_run(proc) IN
    IF result.exc # "None" THEN result          \* not a JSONDecodeError: propagates
    ELSE IF result.value.stdout.kind # "empty"  \* if result.stdout:
         THEN LET parsed == json_loads(result.value.stdout) IN
              IF parsed.exc = "JSONDecodeError" THEN Returned(EmptyDict) ELSE parsed
         ELSE Returned(EmptyDict)

scan_with_trivy(proc) == scan_with(proc)

scan_with_grype(proc) == scan_with(proc)

-----------------------------------------------------------------------------
(* extract_trivy_vulns *)

NoFindings == [vulns |-> {}, severity |-> EmptyCounter]

\* faulty variant: the severity is counted before the test of id and package name
TrivyVuln_counts_every_finding(acc, vuln) ==
    IF acc.exc # "None" THEN acc
    ELSE IF vuln.t # "dict" THEN Raised("AttributeError")
    ELSE LET vuln_id == Get(vuln, "VulnerabilityID", JStr(<<>>))
             pkg_name == Get(vuln, "PkgName", JStr(<<>>))
             sev == Get(vuln, "Severity", JStr(UNKNOWN))
         IN  IF sev.t # "str" THEN Raised("AttributeError")
             ELSE LET counted == CounterAdd(acc.value.severity, StrUpper(sev.v), 1) IN
                  IF Truthy(vuln_id) /\ Truthy(pkg_name)
                  THEN IF ~(Hashable(vuln_id) /\ Hashable(pkg_name)) THEN Raised("TypeError")
                       ELSE Returned([vulns |-> acc.value.vulns \cup {<<vuln_id.v, pkg_name.v>>},
                                      severity |-> counted])
                  ELSE Returned([vulns |-> acc.value.vulns, severity |-> counted])

\* faulty variant: the severity is counted only when the key is new to the set
TrivyVuln_counts_new_keys(acc, vuln) ==
    IF acc.exc # "None" THEN acc
    ELSE IF vuln.t # "dict" THEN Raised("AttributeError")
    ELSE LET vuln_id == Get(vuln, "VulnerabilityID", JStr(<<>>))
             pkg_name == Get(vuln, "PkgName", JStr(<<>>))
             sev == Get(vuln, "Severity", JStr(UNKNOWN))
         IN  IF sev.t # "str" THEN Raised("AttributeError")
             ELSE IF Truthy(vuln_id) /\ Truthy(pkg_name)
             THEN IF ~(Hashable(vuln_id) /\ Hashable(pkg_name)) THEN Raised("TypeError")
                  ELSE IF <<vuln_id.v, pkg_name.v>> \in acc.value.vulns THEN acc
                  ELSE Returned([vulns |-> acc.value.vulns \cup {<<vuln_id.v, pkg_name.v>>},
                                 severity |-> CounterAdd(acc.value.severity, StrUpper(sev.v), 1)])
             ELSE acc

\* body of the inner loop, lines 66-72; acc is the outcome so far
TrivyVuln(acc, vuln) ==
    IF acc.exc # "None" THEN acc
    ELSE IF vuln.t # "dict" THEN Raised("AttributeError")
    ELSE LET vuln_id == Get(vuln, "VulnerabilityID", JStr(<<>>))
             pkg_name == Get(vuln, "PkgName", JStr(<<>>))
             sev == Get(vuln, "Severity", JStr(UNKNOWN))
         IN  IF sev.t # "str" THEN Raised("AttributeError")
             ELSE IF Truthy(vuln_id) /\ Truthy(pkg_name)
             THEN IF ~(Hashable(vuln_id) /\ Hashable(pkg_name)) THEN Raised("TypeError")
                  ELSE Returned([vulns |-> acc.value.vulns \cup {<<vuln_id.v, pkg_name.v>>},
                                 severity |-> CounterAdd(acc.value.severity, StrUpper(sev.v), 1)])
             ELSE acc

RECURSIVE TrivyVulnLoop(_, _)
TrivyVulnLoop(acc, vs) ==
    IF vs = <<>> THEN acc ELSE TrivyVulnLoop(TrivyVuln(acc, Head(vs)), Tail(vs))

\* body of the outer loop, line 65
TrivyResult(acc, result) ==
    IF acc.exc # "None" THEN acc
    ELSE IF result.t # "dict" THEN Raised("AttributeError")
    ELSE LET vs == Get(result, "Vulnerabilities", JList(<<>>)) IN
         IF ~Iterable(vs) THEN Raised("TypeError") ELSE TrivyVulnLoop(acc, Items(vs))

RECURSIVE TrivyResultLoop(_, _)
TrivyResultLoop(acc, rs) ==
    IF rs = <<>> THEN acc ELSE TrivyResultLoop(TrivyResult(acc, Head(rs)), Tail(rs))

extract_trivy_vulns(data) ==
    IF ~Truthy(data) THEN Returned(NoFindings)
    ELSE IF data.t # "dict" THEN Raised("AttributeError")
    ELSE LET rs == Get(data, "Results", JList(<<>>)) IN
         IF ~Iterable(rs) THEN Raised("TypeError")
         ELSE TrivyResultLoop(Returned(NoFindings), Items(rs))

-----------------------------------------------------------------------------
(* extract_grype_vulns *)

\* body of the loop, lines 87-93
GrypeMatch(acc, match) ==
    IF acc.exc # "None" THEN acc
    ELSE IF match.t # "dict" THEN Raised("AttributeError")
    ELSE LET vulnerability == Get(match, "vulnerability", EmptyDict)
             artifact == Get(match, "artifact", EmptyDict)
         IN  IF vulnerability.t # "dict" \/ artifact.t # "dict" THEN Raised("AttributeError")
             ELSE LET vuln_id == Get(vulnerability, "id", JStr(<<>>))
                      pkg_name == Get(artifact, "name", JStr(<<>>))
                      sev == Get(vulnerability, "severity", JStr(Unknown))
                  IN  IF sev.t # "str" THEN Raised("AttributeError")
                      ELSE IF Truthy(vuln_id) /\ Truthy(pkg_name)
                      THEN IF ~(Hashable(vuln_id) /\ Hashable(pkg_name)) THEN Raised("TypeError")
                           ELSE Returned([vulns |-> acc.value.vulns \cup {<<vuln_id.v, pkg_name.v>>},
                                          severity |-> CounterAdd(acc.value.severity, StrUpper(sev.v), 1)])
                      ELSE acc

RECURSIVE GrypeMatchLoop(_, _)
GrypeMatchLoop(acc, ms) ==
    IF ms = <<>> THEN acc ELSE GrypeMatchLoop(GrypeMatch(acc, Head(ms)), Tail(ms))

extract_grype_vulns(data) ==
    IF ~Truthy(data) THEN Returned(NoFindings)
    ELSE IF data.t # "dict" THEN Raised("AttributeError")
    ELSE LET ms == Get(data, "matches", JList(<<>>)) IN
         IF ~Iterable(ms) THEN Raised("TypeError")
         ELSE GrypeMatchLoop(Returned(NoFindings), Items(ms))

-----------------------------------------------------------------------------
(* compare_results *)

\* faulty variant: only_grype is the whole Grype set, the difference left out
compare_results_no_difference(image, trivy_vulns, grype_vulns, trivy_severity, grype_severity) ==
    LET only_trivy == trivy_vulns \ grype_vulns
        only_grype == grype_vulns
        both == trivy_vulns \cap grype_vulns
    IN  [image |-> image,
         trivy |-> [total |-> Cardinality(trivy_vulns), severity |-> trivy_severity],
         grype |-> [total |-> Cardinality(grype_vulns), severity |-> grype_severity],
         comparison |-> [common_count |-> Cardinality(both),
                         only_trivy_count |-> Cardinality(only_trivy),
                         only_grype_count |-> Cardinality(only_grype)],
         details |-> [only_trivy |-> sorted(only_trivy),
                      only_grype |-> sorted(only_grype),
                      common |-> sorted(both)]]

compare_results(image, trivy_vulns, grype_vulns, trivy_severity, grype_severity) ==
    LET only_trivy == trivy_vulns \ grype_vulns
        only_grype == grype_vulns \ trivy_vulns
        both == trivy_vulns \cap grype_vulns
    IN  [image |-> image,
         trivy |-> [total |-> Cardinality(trivy_vulns), severity |-> trivy_severity],
         grype |-> [total |-> Cardinality(grype_vulns), severity |-> grype_severity],
         comparison |-> [common_count |-> Cardinality(both),
                         only_trivy_count |-> Cardinality(only_trivy),
                         only_grype_count |-> Cardinality(only_grype)],
         details |-> [only_trivy |-> sorted(only_trivy),
                      only_grype |-> sorted(only_grype),
                      common |-> sorted(both)]]

-----------------------------------------------------------------------------
(* generate_report *)

\* faulty variant: total[severity] = count, the addition left out
CounterUpdate_assigns(total, d) == [k \in DOMAIN total \ DOMAIN d |-> total[k]] @@ d

\* "for severity, count in d.items(): total[severity] += count"
RECURSIVE CounterUpdate(_, _)
CounterUpdate(total, d) ==
    IF DOMAIN d = {} THEN total
    ELSE LET severity == CHOOSE k \in DOMAIN d : TRUE
             rest == [k \in DOMAIN d \ {severity} |-> d[k]]
         IN  CounterUpdate(CounterAdd(total, severity, d[severity]), rest)

ZeroTotals ==
    [total_trivy_severity |-> EmptyCounter, total_grype_severity |-> EmptyCounter,
     total_trivy |-> 0, total_grype |-> 0,
     total_common |-> 0, total_only_trivy |-> 0, total_only_grype |-> 0]

\* faulty variant: total_grype = ..., the addition left out
ReportStep_assigns(acc, result) ==
    [total_trivy |-> acc.total_trivy + result.trivy.total,
     total_grype |-> result.grype.total,
     total_common |-> acc.total_common + result.comparison.common_count,
     total_only_trivy |-> acc.total_only_trivy + result.comparison.only_trivy_count,
     total_only_grype |-> acc.total_only_grype + result.comparison.only_grype_count,
     total_trivy_severity |-> CounterUpdate(acc.total_trivy_severity, result.trivy.severity),
     total_grype_severity |-> CounterUpdate(acc.total_grype_severity, result.grype.severity)]

\* body of the loop, lines 155-164
ReportStep(acc, result) ==
    [total_trivy |-> acc.total_trivy + result.trivy.total,
     total_grype |-> acc.total_grype + result.grype.total,
     total_common |-> acc.total_common + result.comparison.common_count,
     total_only_trivy |-> acc.total_only_trivy + result.comparison.only_trivy_count,
     total_only_grype |-> acc.total_only_grype + result.comparison.only_grype_count,
     total_trivy_severity |-> CounterUpdate(acc.total_trivy_severity, result.trivy.severity),
     total_grype_severity |-> CounterUpdate(acc.total_grype_severity, result.grype.severity)]

RECURSIVE ReportLoop(_, _)
ReportLoop(acc, rs) ==
    IF rs = <<>> THEN acc ELSE ReportLoop(ReportStep(acc, Head(rs)), Tail(rs))

\* the count the report gives as "images_scanned"
ImagesScanned(self_images, self_results) == Len(self_images)

generate_report(self_images, self_results) ==
    LET t == ReportLoop(ZeroTotals, self_results) IN
    [summary |->
        [images_scanned |-> ImagesScanned(self_images, self_results),
         trivy |-> [total_findings |-> t.total_trivy, severity |-> t.total_trivy_severity],
         grype |-> [total_findings |-> t.total_grype, severity |-> t.total_grype_severity],
         comparison |-> [common_findings |-> t.total_common,
                         only_trivy |-> t.total_only_trivy,
                         only_grype |-> t.total_only_grype]],
     per_image |-> self_results]

-----------------------------------------------------------------------------
(* Inputs: scanner documents and process runs *)

cveA == <<"C", "1">>
cveB == <<"C", "2">>
pkgP == <<"p">>
pkgQ == <<"q">>
high == <<"h", "i", "g", "h">>
High == <<"H", "i", "g", "h">>
HIGH == <<"H", "I", "G", "H">>
low == <<"l", "o", "w">>

\* marks a key left out of a generated JSON object
Absent == [t |-> "absent"]

Field(key, val) == IF val.t = "absent" THEN <<>> ELSE (key :> val)

IdVals == {Absent, JStr(<<>>), JStr(cveA), JStr(cveB)}
NameVals == {Absent, JStr(<<>>), JStr(pkgP)}

TrivyVulnObj(id, pkg, sev) ==
    JDict(Field("VulnerabilityID", id) @@ Field("PkgName", pkg) @@ Field("Severity", sev))

\* findings with each defect of the id and of the package name, the severity
\* variants on a complete finding, a null severity on an incomplete one, and
\* a finding that is null
TrivyVulnObjs ==
    {TrivyVulnObj(i, n, JStr(high)) : i \in IdVals, n \in NameVals}
    \cup {TrivyVulnObj(JStr(cveA), JStr(pkgP), s) : s \in {Absent, JNull, JStr(High), JStr(HIGH)}}
    \cup {TrivyVulnObj(Absent, Absent, Absent), TrivyVulnObj(Absent, JStr(pkgP), JNull), JNull}

\* an entry of "Results" that holds no finding
TrivyEmptyResultObjs ==
    {JNull, EmptyDict, JDict("Vulnerabilities" :> JNull), JDict("Vulnerabilities" :> JList(<<>>))}

RECURSIVE Assigned(_, _, _)
\* the findings of fs, in order, that cut assigns to entry j
Assigned(fs, cut, j) ==
    IF fs = <<>> THEN <<>>
    ELSE (IF Head(cut) = j THEN <<Head(fs)>> ELSE <<>>) \o Assigned(Tail(fs), Tail(cut), j)

\* a Trivy document whose "Results" has n entries among which cut distributes
\* the findings fs; an entry left without findings is the object none
TrivyDoc(fs, n, cut, none) ==
    JDict("Results" :> JList(
        [j \in 1..n |-> IF Assigned(fs, cut, j) = <<>> THEN none
                        ELSE JDict("Vulnerabilities" :> JList(Assigned(fs, cut, j)))]))

\* documents without a usable "Results" list
TrivyOddDocs ==
    {JNull, EmptyDict, JList(<<>>),
     JDict("SchemaVersion" :> JStr(<<"2">>)), JDict("Results" :> JNull)}

GrypeMatchObj(vulnerability, artifact) ==
    JDict(Field("vulnerability", vulnerability) @@ Field("artifact", artifact))

GrypeVulnObj(id, sev) == JDict(Field("id", id) @@ Field("severity", sev))

GrypeVulnObjs == {Absent, JNull} \cup {GrypeVulnObj(i, JStr(high)) : i \in IdVals}

GrypeArtifactObjs == {Absent, JNull} \cup {JDict(Field("name", n)) : n \in NameVals}

\* matches with each defect of the vulnerability object and of the artifact
\* object, the severity variants on a complete match, a null severity on an
\* incomplete one, and a match that is null
GrypeMatchObjs ==
    {GrypeMatchObj(v, a) : v \in GrypeVulnObjs, a \in GrypeArtifactObjs}
    \cup {GrypeMatchObj(GrypeVulnObj(JStr(cveA), s), JDict("name" :> JStr(pkgP))) :
            s \in {Absent, JNull, JStr(High), JStr(HIGH)}}
    \cup {GrypeMatchObj(Absent, Absent),
          GrypeMatchObj(GrypeVulnObj(Absent, JNull), JDict("name" :> JStr(pkgP))), JNull}

GrypeDoc(ms) == JDict("matches" :> JList(ms))

\* documents without a usable "matches" list
GrypeOddDocs ==
    {JNull, EmptyDict, JList(<<>>),
     JDict("descriptor" :> JStr(<<"g">>)), JDict("matches" :> JNull)}

\* the documents the scanners print in the runs of scan_all
TrivyDocA ==
    JDict("Results" :> JList(<<JDict("Vulnerabilities" :> JList(
        <<TrivyVulnObj(JStr(cveA), JStr(pkgP), JStr(high)),
          TrivyVulnObj(JStr(cveB), JStr(pkgP), JStr(low))>>))>>))

TrivyDocB ==
    JDict("Results" :> JList(<<JDict("Vulnerabilities" :> JList(
        <<TrivyVulnObj(JStr(cveA), JStr(pkgQ), JStr(HIGH)),
          TrivyVulnObj(JStr(cveA), JStr(pkgQ), JStr(High)),
          TrivyVulnObj(JStr(<<>>), JStr(pkgP), Absent)>>))>>))

GrypeDocA ==
    JDict("matches" :> JList(
        <<GrypeMatchObj(GrypeVulnObj(JStr(cveA), JStr(High)), JDict("name" :> JStr(pkgP)))>>))

GrypeDocB ==
    JDict("matches" :> JList(
        <<GrypeMatchObj(GrypeVulnObj(JStr(cveA), Absent), JDict("name" :> JStr(pkgQ))),
          GrypeMatchObj(GrypeVulnObj(JStr(cveB), JStr(low)), JDict("name" :> JStr(pkgP)))>>))

StdoutEmpty == [kind |-> "empty"]
StdoutGarbage == [kind |-> "garbage"]
StdoutJson(d) == [kind |-> "json", doc |-> d]

Procs(stdouts) == [found : BOOLEAN, returncode : {0, 1}, stdout : stdouts]

TrivyRuns ==
    Procs({StdoutEmpty, StdoutGarbage} \cup
          {StdoutJson(d) : d \in {TrivyDocA, TrivyDocB, JDict("Results" :> JNull)}})

GrypeRuns ==
    Procs({StdoutEmpty, StdoutGarbage} \cup
          {StdoutJson(d) : d \in {GrypeDocA, GrypeDocB, JDict("matches" :> JList(<<JNull>>))}})

ImageNames == {"nginx", "redis"}

KeyUniverse == {cveA, cveB} \X {pkgP, pkgQ}

NoReport == [none |-> TRUE]
NoCall == [op |-> "none"]
Pending == [exc |-> "pending"]

-----------------------------------------------------------------------------
(* The scanner object: __init__, scan_all, generate_report *)

\* VulnerabilityScanner(images)
Init ==
    /\ images \in UNION {[1..n -> ImageNames] : n \in 0..MaxImages}
    /\ results = <<>>
    /\ report = NoReport
    /\ pc = "idle"
    /\ idx = 0
    /\ trivy_data = EmptyDict
    /\ grype_data = EmptyDict
    /\ exc = "None"
    /\ lastCall = "__init__"
    /\ scan_calls = 0
    /\ scanned = <<>>
    /\ call = NoCall
    /\ ret = Pending

\* an exception leaves scan_all and reaches the caller
RaiseFromScanAll(e) ==
    /\ pc' = "idle"
    /\ idx' = 0
    /\ exc' = e
    /\ trivy_data' = EmptyDict
    /\ grype_data' = EmptyDict
    /\ UNCHANGED <<images, results, report, lastCall, scan_calls, scanned, call, ret>>

\* scan_all is called: the loop starts, or ends at once on an empty image list
scan_all_enter ==
    /\ pc = "idle"
    /\ Len(results) + Len(images) <= MaxRecords
    /\ lastCall' = "scan_all"
    /\ exc' = "None"
    /\ pc' = IF images = <<>> THEN "idle" ELSE "scan_trivy"
    /\ idx' = IF images = <<>> THEN 0 ELSE 1
    /\ scan_calls' = IF scan_calls = 0 THEN 1 ELSE 2
    /\ UNCHANGED <<images, results, report, trivy_data, grype_data, scanned, call, ret>>

\* line 133
scan_all_trivy ==
    /\ pc = "scan_trivy"
    /\ \E proc \in TrivyRuns :
         LET r == scan_with_trivy(proc) IN
         IF r.exc # "None" THEN RaiseFromScanAll(r.exc)
         ELSE /\ trivy_data' = r.value
              /\ pc' = "scan_grype"
              /\ UNCHANGED <<images, results, report, idx, grype_data, exc, lastCall,
                             scan_calls, scanned, call, ret>>

\* line 134
scan_all_grype ==
    /\ pc = "scan_grype"
    /\ \E proc \in GrypeRuns :
         LET r == scan_with_grype(proc) IN
         IF r.exc # "None" THEN RaiseFromScanAll(r.exc)
         ELSE /\ grype_data' = r.value
              /\ pc' = "extract"
              /\ UNCHANGED <<images, results, report, idx, trivy_data, exc, lastCall,
                             scan_calls, scanned, call, ret>>

\* lines 136-142, and the loop's next iteration or its end
scan_all_compare ==
    /\ pc = "extract"
    /\ LET t == extract_trivy_vulns(trivy_data)
           g == extract_grype_vulns(grype_data)
       IN  IF t.exc # "None" THEN RaiseFromScanAll(t.exc)
           ELSE IF g.exc # "None" THEN RaiseFromScanAll(g.exc)
           ELSE LET comparison == compare_results(images[idx], t.value.vulns, g.value.vulns,
                                                  t.value.severity, g.value.severity)
                IN  /\ results' = Append(results, comparison)
                    \* a report returned earlier holds self.results itself
                    /\ report' = IF report = NoReport THEN report
                                 ELSE [report EXCEPT !.per_image = results']
                    /\ pc' = IF idx < Len(images) THEN "scan_trivy" ELSE "idle"
                    /\ idx' = IF idx < Len(images) THEN idx + 1 ELSE 0
                    /\ trivy_data' = EmptyDict
                    /\ grype_data' = EmptyDict
                    /\ scanned' = Append(scanned, <<trivy_data, grype_data>>)
                    /\ UNCHANGED <<images, exc, lastCall, scan_calls, call, ret>>

call_generate_report ==
    /\ pc = "idle"
    /\ report' = generate_report(images, results)
    /\ lastCall' = "generate_report"
    /\ exc' = "None"
    /\ UNCHANGED <<images, results, pc, idx, trivy_data, grype_data, scan_calls, scanned, call, ret>>

Next ==
    \/ scan_all_enter
    \/ scan_all_trivy
    \/ scan_all_grype
    \/ scan_all_compare
    \/ call_generate_report

Spec == Init /\ [][Next]_vars

-----------------------------------------------------------------------------
(* Single calls of the pure methods on given arguments *)

UnitProcs(doc) ==
    Procs({StdoutEmpty, StdoutGarbage, StdoutJson(EmptyDict), StdoutJson(JNull), StdoutJson(doc)})

InitUnit ==
    /\ images = <<>>
    /\ results = <<>>
    /\ report = NoReport
    /\ pc = "idle"
    /\ idx = 0
    /\ trivy_data = EmptyDict
    /\ grype_data = EmptyDict
    /\ exc = "None"
    /\ lastCall = "__init__"
    /\ scan_calls = 0
    /\ scanned = <<>>
    /\ ret = Pending
    /\ \/ \E p \in UnitProcs(TrivyDocA) : call = [op |-> "scan_with_trivy", proc |-> p]
       \/ \E p \in UnitProcs(GrypeDocA) : call = [op |-> "scan_with_grype", proc |-> p]
       \/ \E d \in TrivyOddDocs : call = [op |-> "extract_trivy_vulns", data |-> d]
       \/ \E k \in 0..MaxVulns, n \in 0..MaxResults, none \in TrivyEmptyResultObjs :
            \E fs \in [1..k -> TrivyVulnObjs], cut \in [1..k -> 1..n] :
               /\ \A a \in 1..k, b \in 1..k : a <= b => cut[a] <= cut[b]
               /\ call = [op |-> "extract_trivy_vulns", data |-> TrivyDoc(fs, n, cut, none)]
       \/ \E d \in GrypeOddDocs : call = [op |-> "extract_grype_vulns", data |-> d]
       \/ \E k \in 0..MaxVulns : \E ms \in [1..k -> GrypeMatchObjs] :
               call = [op |-> "extract_grype_vulns", data |-> GrypeDoc(ms)]
       \/ \E i \in ImageNames, a \in SUBSET KeyUniverse, b \in SUBSET KeyUniverse :
               call = [op |-> "compare_results", image |-> i, trivy_vulns |-> a, grype_vulns |-> b]

Do(op, outcome) ==
    /\ call.op = op
    /\ ret = Pending
    /\ ret' = outcome
    /\ UNCHANGED <<images, results, report, pc, idx, trivy_data, grype_data, exc, lastCall,
                   scan_calls, scanned, call>>

call_scan_with_trivy == Do("scan_with_trivy", scan_with_trivy(call.proc))

call_scan_with_grype == Do("scan_with_grype", scan_with_grype(call.proc))

call_extract_trivy_vulns == Do("extract_trivy_vulns", extract_trivy_vulns(call.data))

call_extract_grype_vulns == Do("extract_grype_vulns", extract_grype_vulns(call.data))

\* the severity dicts are handed through; a count per key set tells them apart
SeverityOf(keys) == IF keys = {} THEN EmptyCounter ELSE (HIGH :> Cardinality(keys))

call_compare_results ==
    Do("compare_results",
       Returned(compare_results(call.image, call.trivy_vulns, call.grype_vulns,
                                SeverityOf(call.trivy_vulns), SeverityOf(call.grype_vulns))))

NextUnit ==
    \/ call_scan_with_trivy
    \/ call_scan_with_grype
    \/ call_extract_trivy_vulns
    \/ call_extract_grype_vulns
    \/ call_compare_results

SpecUnit == InitUnit /\ [][NextUnit]_vars

-----------------------------------------------------------------------------
(* What a scanner document says, read off the document itself *)

Range(seq) == {seq[k] : k \in DOMAIN seq}

RECURSIVE SumTo(_, _)
\* f[1] + ... + f[n]
SumTo(f, n) == IF n = 0 THEN 0 ELSE f[n] + SumTo(f, n - 1)

RECURSIVE Concat(_)
Concat(seqs) == IF seqs = <<>> THEN <<>> ELSE Head(seqs) \o Concat(Tail(seqs))

HasKey(obj, key) == obj.t = "dict" /\ key \in DOMAIN obj.v

\* the str under key, "" when the key is absent or holds no str
StrAt(obj, key) ==
    IF HasKey(obj, key) THEN (IF obj.v[key].t = "str" THEN obj.v[key].v ELSE <<>>) ELSE <<>>

\* the object under key, {} when absent
ObjAt(obj, key) == IF HasKey(obj, key) THEN obj.v[key] ELSE EmptyDict

ListAt(obj, key) ==
    IF HasKey(obj, key) THEN (IF obj.v[key].t = "list" THEN obj.v[key].v ELSE <<>>) ELSE <<>>

\* the raw findings of a document, in document order
RawFindings(op, data) ==
    IF op = "extract_trivy_vulns"
    THEN LET rs == ListAt(data, "Results")
         IN  Concat([j \in DOMAIN rs |-> ListAt(rs[j], "Vulnerabilities")])
    ELSE ListAt(data, "matches")

FindingId(op, f) ==
    IF op = "extract_trivy_vulns" THEN StrAt(f, "VulnerabilityID")
    ELSE StrAt(ObjAt(f, "vulnerability"), "id")

FindingPkg(op, f) ==
    IF op = "extract_trivy_vulns" THEN StrAt(f, "PkgName")
    ELSE StrAt(ObjAt(f, "artifact"), "name")

HasSeverity(op, f) ==
    IF op = "extract_trivy_vulns" THEN HasKey(f, "Severity")
    ELSE HasKey(ObjAt(f, "vulnerability"), "severity")

FindingSeverity(op, f) ==
    IF op = "extract_trivy_vulns" THEN StrAt(f, "Severity")
    ELSE StrAt(ObjAt(f, "vulnerability"), "severity")

\* a finding with a non-empty id and a non-empty package name
Qualifies(op, f) == FindingId(op, f) # <<>> /\ FindingPkg(op, f) # <<>>

QualifyingFindings(op, data) ==
    LET Keep(f) == Qualifies(op, f) IN SelectSeq(RawFindings(op, data), Keep)

\* the document with every finding that does not qualify taken out
WithoutIncomplete(op, data) ==
    LET Keep(f) == Qualifies(op, f)
        Clean(r) == IF HasKey(r, "Vulnerabilities") /\ ObjAt(r, "Vulnerabilities").t = "list"
                    THEN JDict([k \in DOMAIN r.v |->
                                  IF k = "Vulnerabilities"
                                  THEN JList(SelectSeq(r.v[k].v, Keep)) ELSE r.v[k]])
                    ELSE r
    IN  IF op = "extract_trivy_vulns"
        THEN IF HasKey(data, "Results") /\ ObjAt(data, "Results").t = "list"
             THEN JDict("Results" :> JList([j \in DOMAIN data.v["Results"].v |->
                                              Clean(data.v["Results"].v[j])]))
             ELSE data
        ELSE IF HasKey(data, "matches") /\ ObjAt(data, "matches").t = "list"
             THEN JDict("matches" :> JList(SelectSeq(data.v["matches"].v, Keep)))
             ELSE data

Extract(op, data) ==
    IF op = "extract_trivy_vulns" THEN extract_trivy_vulns(data) ELSE extract_grype_vulns(data)

\* two labels that differ at most in letter case
EqIgnoreCase(a, b) ==
    /\ Len(a) = Len(b)
    /\ \A k \in DOMAIN a :
         \/ a[k] = b[k]
         \/ \E j \in DOMAIN LowerLetters : {a[k], b[k]} = {LowerLetters[j], UpperLetters[j]}

IsUpperCase(label) == \A k \in DOMAIN label : ~IsIn(label[k], LowerLetters)

\* the label a finding carries, UNKNOWN when it has no severity field
LabelOf(op, f) == IF HasSeverity(op, f) THEN FindingSeverity(op, f) ELSE UNKNOWN

HistGet(h, label) == IF label \in DOMAIN h THEN h[label] ELSE 0

RECURSIVE HistTotal(_)
HistTotal(h) ==
    IF DOMAIN h = {} THEN 0
    ELSE LET l == CHOOSE k \in DOMAIN h : TRUE
         IN  h[l] + HistTotal([k \in DOMAIN h \ {l} |-> h[k]])

ExtractCalled == call.op \in {"extract_trivy_vulns", "extract_grype_vulns"} /\ ret # Pending
ExtractReturned == ExtractCalled /\ ret.exc = "None"
ScanCalled == call.op \in {"scan_with_trivy", "scan_with_grype"} /\ ret # Pending
CompareReturned == call.op = "compare_results" /\ ret # Pending
ReportReturned == lastCall = "generate_report"

-----------------------------------------------------------------------------
(* Claims *)

\* C1: for every pair of key sets handed to compare_results, the three
\* detail lists only_trivy, only_grype and common are pairwise disjoint, hold
\* together exactly the keys of both sets, and the three counts are their
\* sizes; two empty sets give three empty lists and three zero counts.
C1_ComparePartitions ==
    CompareReturned =>
        LET r == ret.value
            ot == Range(r.details.only_trivy)
            og == Range(r.details.only_grype)
            co == Range(r.details.common)
        IN  /\ ot \cap og = {} /\ ot \cap co = {} /\ og \cap co = {}
            /\ ot \cup og \cup co = call.trivy_vulns \cup call.grype_vulns
            /\ r.comparison.only_trivy_count = Cardinality(ot)
            /\ r.comparison.only_grype_count = Cardinality(og)
            /\ r.comparison.common_count = Cardinality(co)
            /\ Len(r.details.only_trivy) = Cardinality(ot)
            /\ Len(r.details.only_grype) = Cardinality(og)
            /\ Len(r.details.common) = Cardinality(co)
            /\ (call.trivy_vulns = {} /\ call.grype_vulns = {}) =>
                   /\ r.details = [only_trivy |-> <<>>, only_grype |-> <<>>, common |-> <<>>]
                   /\ r.comparison = [common_count |-> 0, only_trivy_count |-> 0,
                                      only_grype_count |-> 0]

C1_Witness ==
    /\ CompareReturned
    /\ ret.value.comparison.common_count > 0
    /\ ret.value.comparison.only_trivy_count > 0
    /\ ret.value.comparison.only_grype_count > 0

\* C2: whatever the scanner process does (binary missing, any exit code, empty
\* or unparseable output), scan_with_trivy and scan_with_grype return without
\* raising, return {} when the binary is missing or the output is empty or
\* unparseable, and the exit code alone does not change what they return.
C2_ScanNeverRaises ==
    ScanCalled =>
        /\ ret.exc = "None"
        /\ (~call.proc.found \/ call.proc.stdout.kind \in {"empty", "garbage"})
               => ret.value = EmptyDict
        /\ \A code \in {0, 1} :
               LET other == [call.proc EXCEPT !.returncode = code]
               IN  ret = (IF call.op = "scan_with_trivy" THEN scan_with_trivy(other)
                          ELSE scan_with_grype(other))

\* C3: after one scan_all, self.results holds exactly one record per input
\* image, in input order, whatever the scanners did; a side whose scanner gave
\* empty output has zero findings and an empty histogram (all counts zero and
\* all detail lists empty when both sides did), and each record is what its
\* own image's two documents give.
C3_OneRecordPerImage ==
    (scan_calls = 1 /\ pc = "idle") =>
        /\ Len(results) = Len(images)
        /\ \A k \in DOMAIN results :
             /\ results[k].image = images[k]
             /\ scanned[k][1] = EmptyDict =>
                    results[k].trivy = [total |-> 0, severity |-> EmptyCounter]
             /\ scanned[k][2] = EmptyDict =>
                    results[k].grype = [total |-> 0, severity |-> EmptyCounter]
             /\ (scanned[k][1] = EmptyDict /\ scanned[k][2] = EmptyDict) =>
                    /\ results[k].comparison = [common_count |-> 0, only_trivy_count |-> 0,
                                                only_grype_count |-> 0]
                    /\ results[k].details = [only_trivy |-> <<>>, only_grype |-> <<>>,
                                             common |-> <<>>]
             /\ LET t == extract_trivy_vulns(scanned[k][1])
                    g == extract_grype_vulns(scanned[k][2])
                IN  results[k] = compare_results(images[k], t.value.vulns, g.value.vulns,
                                                 t.value.severity, g.value.severity)

\* C4: extract_trivy_vulns and extract_grype_vulns return a result, and never
\* raise, on every document, also when a container, list, nested object or
\* field is absent, null or of the wrong shape; a document without the
\* top-level key gives an empty key set and an empty histogram.
C4_ExtractNeverRaises ==
    ExtractCalled =>
        /\ ret.exc = "None"
        /\ ~HasKey(call.data, IF call.op = "extract_trivy_vulns" THEN "Results" ELSE "matches")
               => ret.value = NoFindings

\* C5: every key of the returned set has a non-empty id and a non-empty
\* package name, and a finding whose id or package name is empty or absent
\* adds nothing: the result is the one the document gives with those findings
\* taken out, and is empty when no finding qualifies.
C5_IncompleteFindingsDropped ==
    ExtractReturned =>
        /\ \A key \in ret.value.vulns : key[1] # <<>> /\ key[2] # <<>>
        /\ ret = Extract(call.op, WithoutIncomplete(call.op, call.data))
        /\ QualifyingFindings(call.op, call.data) = <<>> => ret.value = NoFindings

C5_Witness ==
    /\ ExtractReturned
    /\ ret.value.vulns # {}
    /\ \E k \in DOMAIN RawFindings(call.op, call.data) :
           ~Qualifies(call.op, RawFindings(call.op, call.data)[k])

\* C8: every label of a returned histogram is upper-case, and the count under
\* a label is the number of qualifying findings whose severity equals it up to
\* letter case, a finding without severity field counting as UNKNOWN, for both
\* backends.
C8_SeverityCaseFolded ==
    ExtractReturned =>
        LET qs == QualifyingFindings(call.op, call.data)
            hist == ret.value.severity
        IN  /\ \A label \in DOMAIN hist :
                 /\ IsUpperCase(label)
                 /\ hist[label] = Cardinality({k \in DOMAIN qs :
                                                 EqIgnoreCase(LabelOf(call.op, qs[k]), label)})
            /\ \A k \in DOMAIN qs :
                 \E label \in DOMAIN hist : EqIgnoreCase(LabelOf(call.op, qs[k]), label)
            /\ (\E k \in DOMAIN qs : ~HasSeverity(call.op, qs[k])) => UNKNOWN \in DOMAIN hist

C8_Witness ==
    /\ ExtractReturned
    /\ call.op = "extract_grype_vulns"
    /\ LET qs == QualifyingFindings(call.op, call.data)
       IN  /\ Len(qs) = 2
           /\ HasSeverity(call.op, qs[1]) /\ HasSeverity(call.op, qs[2])
           /\ FindingSeverity(call.op, qs[1]) # FindingSeverity(call.op, qs[2])
           /\ Cardinality(DOMAIN ret.value.severity) = 1

\* C9: the counts of the histogram add up to the number of qualifying raw
\* findings, which is at least the size of the key set and larger when two
\* qualifying findings share a key.
C9_HistogramCountsFindings ==
    ExtractReturned =>
        LET qs == QualifyingFindings(call.op, call.data)
            total == HistTotal(ret.value.severity)
            KeyOf(f) == <<FindingId(call.op, f), FindingPkg(call.op, f)>>
        IN  /\ total = Len(qs)
            /\ total >= Cardinality(ret.value.vulns)
            /\ (\E a \in DOMAIN qs, b \in DOMAIN qs : a # b /\ KeyOf(qs[a]) = KeyOf(qs[b]))
                   => total > Cardinality(ret.value.vulns)

C9_Witness ==
    /\ ExtractReturned
    /\ call.op = "extract_trivy_vulns"
    /\ Cardinality(ret.value.vulns) = 1
    /\ HistTotal(ret.value.severity) = 2

\* C6: each total of the summary is the sum of the per-image values, each
\* severity histogram of the summary is the key-wise sum of the per-image
\* histograms (a label an image lacks counting zero), and an empty image list
\* gives images_scanned = 0, zero totals, empty histograms and per_image = [].
C6_SummaryIsSum ==
    ReportReturned =>
        LET rs == report.per_image
            sm == report.summary
            n == Len(rs)
            HistIsSum(total, side) ==
                /\ DOMAIN total = UNION {DOMAIN rs[k][side].severity : k \in 1..n}
                /\ \A label \in DOMAIN total :
                     total[label] = SumTo([k \in 1..n |-> HistGet(rs[k][side].severity, label)], n)
        IN  /\ sm.trivy.total_findings = SumTo([k \in 1..n |-> rs[k].trivy.total], n)
            /\ sm.grype.total_findings = SumTo([k \in 1..n |-> rs[k].grype.total], n)
            /\ sm.comparison.common_findings =
                   SumTo([k \in 1..n |-> rs[k].comparison.common_count], n)
            /\ sm.comparison.only_trivy =
                   SumTo([k \in 1..n |-> rs[k].comparison.only_trivy_count], n)
            /\ sm.comparison.only_grype =
                   SumTo([k \in 1..n |-> rs[k].comparison.only_grype_count], n)
            /\ HistIsSum(sm.trivy.severity, "trivy")
            /\ HistIsSum(sm.grype.severity, "grype")
            /\ images = <<>> =>
                   /\ sm = [images_scanned |-> 0,
                            trivy |-> [total_findings |-> 0, severity |-> EmptyCounter],
                            grype |-> [total_findings |-> 0, severity |-> EmptyCounter],
                            comparison |-> [common_findings |-> 0, only_trivy |-> 0,
                                            only_grype |-> 0]]
                   /\ rs = <<>>

C6_Witness ==
    /\ ReportReturned
    /\ Len(results) = 2
    /\ DOMAIN results[1].trivy.severity # DOMAIN results[2].trivy.severity
    /\ results[1].grype.total > 0
    /\ results[2].grype.total > 0

IndexPermutations(n) == {p \in [1..n -> 1..n] : \A a \in 1..n, b \in 1..n : p[a] = p[b] => a = b}

\* C7: generate_report gives the same summary for every permutation of the
\* records, and its per_image is the sequence it was given, in that order.
C7_SummaryOrderIndependent ==
    ReportReturned =>
        /\ report.per_image = results
        /\ \A p \in IndexPermutations(Len(results)) :
             LET permuted == [k \in 1..Len(results) |-> results[p[k]]]
                 other == generate_report(images, permuted)
             IN  /\ other.summary = report.summary
                 /\ other.per_image = permuted

C7_Witness ==
    /\ ReportReturned
    /\ Len(results) = 2
    /\ results[1].trivy # results[2].trivy
    /\ results[1].grype # results[2].grype

\* C10: every report generate_report returned has images_scanned equal to the
\* number of records of its per_image, whatever calls were made before.
C10_ImagesScannedIsRecordCount ==
    report # NoReport => report.summary.images_scanned = Len(report.per_image)

====
